---- MODULE Spec2Model ----
(***************************************************************************)
(* Reverse-mode automatic differentiation over scalars (src/tensor.py).    *)
(*                                                                         *)
(* The Python heap of Tensor objects is the sequence `heap`; a Tensor is   *)
(* identified by its index (object identity: Tensor defines neither        *)
(* __eq__ nor __hash__).  Floats are modelled by integers: every value the *)
(* model produces is a small integer, on which float arithmetic is exact.  *)
(* The absent marker None is the empty tuple, a present float v is <<v>>.  *)
(***************************************************************************)
EXTENDS Integers, Sequences, FiniteSets

VARIABLES
    heap,       \* the Tensor objects, by identity: value, args, local_derivatives, derivative
    made,       \* made[i]: the call that constructed heap[i], with the local-derivative
                \* values it attached (history)
    touched,    \* the nodes a backward call has reached since they were constructed
                \* or last cleared (history)
    pc,         \* "ready", or "TypeError" once a call has raised
    last,       \* the last call: [call, root, cleared]
    start0,     \* last backward: every node's derivative when the call was made (history)
    processed,  \* last backward: the nodes its loop took, in turn (history)
    used,       \* last backward: the derivative each node held when the loop took it (history)
    passes      \* number of backward calls made

vars == <<heap, made, touched, pc, last, start0, processed, used, passes>>

(* Bounds of the model *)
MaxNodes == 3
MaxPasses == 2
LeafValues == {2, 3}

None == <<>>
Some(v) == <<v>>

Nodes == 1..Len(heap)

(***************************************************************************)
(* Tensor.__init__: a leaf                                                 *)
(*                                                                         *)
(* Here and below, a definition marked "variant" is a faulty version of    *)
(* the definition that follows it, kept to show that the properties tell   *)
(* the two apart.                                                          *)
(***************************************************************************)
(* variant: the numeric default of line 18, derivative = 0.0 *)
Tensor_zero(v) ==
    [value |-> v, args |-> None, local_derivatives |-> None, derivative |-> Some(0)]

Tensor(v) ==
    [value |-> v, args |-> None, local_derivatives |-> None, derivative |-> None]

(* A local derivative is a Tensor.  _add and _sub allocate it (Own: an     *)
(* object no other reference reaches, given by its value); _mul stores the *)
(* operand itself (Ref: a heap object).                                    *)
Own(v) == [ref |-> 0, value |-> v]
Ref(i) == [ref |-> i, value |-> 0]

(* local_derivative.value, read from heap h *)
LocalValue(h, ld) == IF ld.ref = 0 THEN ld.value ELSE h[ld.ref].value

_add(a, b) ==
    [Tensor(heap[a].value + heap[b].value) EXCEPT
        !.local_derivatives = <<Own(1), Own(1)>>,
        !.args = <<a, b>>]

(* variant: the local derivatives of _add *)
_sub_sum_rule(a, b) ==
    [Tensor(heap[a].value - heap[b].value) EXCEPT
        !.local_derivatives = <<Own(1), Own(1)>>,
        !.args = <<a, b>>]

_sub(a, b) ==
    [Tensor(heap[a].value - heap[b].value) EXCEPT
        !.local_derivatives = <<Own(1), Own(-1)>>,
        !.args = <<a, b>>]

(* variant: the local derivatives in operand order *)
_mul_swapped(a, b) ==
    [Tensor(heap[a].value * heap[b].value) EXCEPT
        !.local_derivatives = <<Ref(a), Ref(b)>>,
        !.args = <<a, b>>]

_mul(a, b) ==
    [Tensor(heap[a].value * heap[b].value) EXCEPT
        !.local_derivatives = <<Ref(b), Ref(a)>>,
        !.args = <<a, b>>]

(***************************************************************************)
(* Tensor.build_topo                                                       *)
(***************************************************************************)
(* variant: no visited check *)
never_seen(self, visited) == FALSE

seen(self, visited) == self \in visited

RECURSIVE build_topo(_, _)
RECURSIVE build_topo_args(_, _, _)

(* st = [order, visited]: the two mutable arguments of build_topo *)
build_topo(self, st) ==
    IF seen(self, st.visited)
    THEN st
    ELSE LET st1 == [st EXCEPT !.visited = @ \cup {self}]
             st2 == IF heap[self].args # None
                    THEN build_topo_args(heap[self].args, 1, st1)
                    ELSE st1
         IN  [st2 EXCEPT !.order = Append(@, self)]

(* for arg in self.args: arg.build_topo(order, visited) *)
build_topo_args(args, k, st) ==
    IF k > Len(args)
    THEN st
    ELSE build_topo_args(args, k + 1, build_topo(args[k], st))

topo(root) == build_topo(root, [order |-> <<>>, visited |-> {}]).order

(* variant: the order walked forward *)
not_reversed(s) == s

reversed(s) == [i \in 1..Len(s) |-> s[Len(s) + 1 - i]]

(***************************************************************************)
(* Tensor.backward                                                         *)
(***************************************************************************)
(* variant: a derivative already held is kept *)
seed_if_absent(old) == IF old = None THEN Some(1) ELSE old

seed(old) == Some(1)

(* variant: = in place of += *)
overwrite(old, contrib) == Some(contrib)

accumulate(old, contrib) ==
    IF old = None THEN Some(contrib) ELSE Some(old[1] + contrib)

RECURSIVE push(_, _, _)
(* for arg, local_derivative in zip(node.args, node.local_derivatives) *)
push(h, node, k) ==
    IF k > Len(h[node].args) \/ k > Len(h[node].local_derivatives)
    THEN h
    ELSE LET arg == h[node].args[k]
             contrib == h[node].derivative[1]
                          * LocalValue(h, h[node].local_derivatives[k])
         IN  push([h EXCEPT ![arg].derivative = accumulate(@, contrib)], node, k + 1)

(* None * float raises TypeError *)
raises(h, node) == h[node].args # None /\ h[node].derivative = None

RECURSIVE loop(_, _, _, _)
(* for node in reversed(order): the heap when the loop ends or raises,     *)
(* with the nodes taken and the derivative each held when taken            *)
loop(h, nodes, taken, held) ==
    IF nodes = <<>>
    THEN [heap |-> h, processed |-> taken, used |-> held, raised |-> FALSE]
    ELSE LET node == Head(nodes)
         IN  IF raises(h, node)
             THEN [heap |-> h, processed |-> taken, used |-> held, raised |-> TRUE]
             ELSE loop(IF h[node].args # None THEN push(h, node, 1) ELSE h,
                       Tail(nodes),
                       Append(taken, node),
                       Append(held, h[node].derivative))

(***************************************************************************)
(* Tensor.clear_derivatives                                                *)
(***************************************************************************)
(* variant: the node re-initialised *)
reinit(node) == Tensor(node.value)

reset(node) == [node EXCEPT !.derivative = None]

RECURSIVE clear_all(_, _)
clear_all(h, nodes) ==
    IF nodes = <<>>
    THEN h
    ELSE clear_all([h EXCEPT ![Head(nodes)] = reset(@)], Tail(nodes))

(* variant: backward clears the graph before seeding *)
enter_zeroing(h, r) == [clear_all(h, topo(r)) EXCEPT ![r].derivative = Some(1)]

(* backward, line 43: self.derivative = 1.0 *)
enter(h, r) == [h EXCEPT ![r].derivative = seed(@)]

(* variant: only the root is reset *)
only_self(r) == <<r>>

(* clear_derivatives resets the nodes of the order build_topo gives *)
cleared_nodes(r) == topo(r)

(***************************************************************************)
(* The graph, read off the heap independently of build_topo                *)
(***************************************************************************)
Parents(n) == {heap[n].args[k] : k \in 1..Len(heap[n].args)}

RECURSIVE Reach(_)
(* the nodes reachable from r through parent (args) edges, r included *)
Reach(r) == {r} \cup UNION {Reach(p) : p \in Parents(r)}

(* the local-derivative values of node n as a backward pass reads them *)
LocalValues(n) ==
    [k \in 1..Len(heap[n].local_derivatives) |->
        LocalValue(heap, heap[n].local_derivatives[k])]

(* no call runs after one has raised; MaxNodes bounds the heap *)
CanAlloc == pc = "ready" /\ Len(heap) < MaxNodes

(***************************************************************************)
(* The calls.  Each is one action: the code is single-threaded and a call  *)
(* runs to completion.  The history variables record what the properties   *)
(* need of the last call.                                                  *)
(***************************************************************************)
Idle == <<>>

NoPass ==
    /\ start0' = Idle
    /\ processed' = Idle
    /\ used' = Idle

(* cleared: the call is a backward(r) that directly follows clear_derivatives(r) *)
Call(name, r, cleared) == [call |-> name, root |-> r, cleared |-> cleared]

(* a constructor call: the new object joins the heap *)
Alloc(node, op, a, b) ==
    /\ CanAlloc
    /\ heap' = Append(heap, node)
    /\ made' = Append(made,
            [op |-> op, a |-> a, b |-> b,
             lv |-> [k \in 1..Len(node.local_derivatives) |->
                        LocalValue(heap, node.local_derivatives[k])]])
    /\ last' = Call(op, Len(heap) + 1, FALSE)
    /\ NoPass
    /\ UNCHANGED <<touched, pc, passes>>

Construct(v) == Alloc(Tensor(v), "leaf", 0, 0)

Add(a, b) == Alloc(_add(a, b), "add", a, b)

Sub(a, b) == Alloc(_sub(a, b), "sub", a, b)

Mul(a, b) == Alloc(_mul(a, b), "mul", a, b)

(* backward: seed the root, build the order, walk it in reverse; at most   *)
(* MaxPasses calls, since derivatives accumulate without bound             *)
Backward(r) ==
    /\ pc = "ready"
    /\ passes < MaxPasses
    /\ passes' = passes + 1
    /\ \E run \in {loop(enter(heap, r), reversed(topo(r)), <<>>, <<>>)} :
           /\ heap' = run.heap
           /\ processed' = run.processed
           /\ used' = run.used
           /\ pc' = IF run.raised THEN "TypeError" ELSE "ready"
    /\ start0' = [i \in Nodes |-> heap[i].derivative]
    /\ touched' = touched \cup Reach(r)
    /\ last' = Call("backward", r, last.call = "clear_derivatives" /\ last.root = r)
    /\ UNCHANGED made

(* clear_derivatives: build the order, reset every node of it *)
ClearDerivatives(r) ==
    /\ pc = "ready"
    /\ heap' = clear_all(heap, cleared_nodes(r))
    /\ touched' = touched \ Reach(r)
    /\ last' = Call("clear_derivatives", r, FALSE)
    /\ NoPass
    /\ UNCHANGED <<made, pc, passes>>

Init ==
    /\ heap = <<>>
    /\ made = <<>>
    /\ touched = {}
    /\ pc = "ready"
    /\ last = Call("none", 0, FALSE)
    /\ start0 = Idle
    /\ processed = Idle
    /\ used = Idle
    /\ passes = 0

Next ==
    \/ CanAlloc /\ \E v \in LeafValues : Construct(v)
    \/ CanAlloc /\ \E a \in Nodes, b \in Nodes : Add(a, b)
    \/ CanAlloc /\ \E a \in Nodes, b \in Nodes : Sub(a, b)
    \/ CanAlloc /\ \E a \in Nodes, b \in Nodes : Mul(a, b)
    \/ \E r \in Nodes : Backward(r)
    \/ \E r \in Nodes : ClearDerivatives(r)

Spec == Init /\ [][Next]_vars

(* graph construction alone: the inputs of build_topo *)
NextGraph ==
    \/ CanAlloc /\ \E v \in LeafValues : Construct(v)
    \/ CanAlloc /\ \E a \in Nodes, b \in Nodes : Add(a, b)
    \/ CanAlloc /\ \E a \in Nodes, b \in Nodes : Sub(a, b)
    \/ CanAlloc /\ \E a \in Nodes, b \in Nodes : Mul(a, b)

SpecGraph == Init /\ [][NextGraph]_vars

(***************************************************************************)
(* Properties                                                              *)
(***************************************************************************)
Returned == pc = "ready" /\ last.call = "backward"

Root == last.root

(* the sum of the local-derivative values on the edges from m to its parent n *)
EdgeWeight(m, n) ==
    LET w(k) == IF k <= Len(heap[m].args) /\ heap[m].args[k] = n
                THEN LocalValues(m)[k] ELSE 0
    IN  w(1) + w(2)

RECURSIVE PathSum(_, _)
RECURSIVE PathSumFrom(_, _, _)
(* the sum over all parent-edge paths from r to n of the product of the    *)
(* local-derivative values along the path; a node's parents were all       *)
(* constructed before it, so every path from r to n runs through           *)
(* n+1 .. r                                                                *)
PathSum(r, n) == IF n = r THEN 1 ELSE PathSumFrom(r, n, n + 1)

PathSumFrom(r, n, m) ==
    IF m > r
    THEN 0
    ELSE PathSum(r, m) * EdgeWeight(m, n) + PathSumFrom(r, n, m + 1)

Present(n) == heap[n].derivative # None

Leaf(n) == heap[n].args = None

(* the position at which the loop took node m *)
TakenAt(m) == CHOOSE i \in 1..Len(processed) : processed[i] = m

ProcessedSet == {processed[i] : i \in 1..Len(processed)}

(* C1: when backward(root) returns from a call made with every reachable   *)
(* node's derivative absent, every reachable node n holds the sum over all *)
(* parent-edge paths from root to n of the product of the local-derivative *)
(* values along the path (1 for the root itself).                          *)
C1_BackwardIsPathSum ==
    (Returned /\ \A n \in Reach(Root) : start0[n] = None)
        => \A n \in Reach(Root) : heap[n].derivative = Some(PathSum(Root, n))

(* y = x * x, differentiated from absent derivatives: derivative(x) = 2 * x.value *)
C1_Witness ==
    /\ Returned
    /\ \A n \in Reach(Root) : start0[n] = None
    /\ made[Root].op = "mul"
    /\ made[Root].a = made[Root].b
    /\ heap[made[Root].a].derivative = Some(2 * heap[made[Root].a].value)

(* C2: backward(r) called right after clear_derivatives(r), whatever calls *)
(* came before, leaves every node reachable from r with the derivative of  *)
(* a pass over a never-differentiated graph (the path sum).                *)
C2_ClearThenBackward ==
    (Returned /\ last.cleared)
        => \A n \in Reach(Root) : heap[n].derivative = Some(PathSum(Root, n))

(* the root's graph shares a node with another graph that was              *)
(* differentiated before and still holds its derivatives                   *)
C2_Witness ==
    /\ Returned
    /\ last.cleared
    /\ passes >= 2
    /\ \E m \in Nodes \ Reach(Root) :
          /\ Present(m)
          /\ m \in touched
          /\ (Reach(m) \cap Reach(Root)) # {}
          /\ made[m].op = "mul"

(* the result y of the last backward call was built from a and b, which    *)
(* held no derivative when the call was made                               *)
BuiltFromAbsent(y, op) ==
    /\ made[y].op = op
    /\ start0[made[y].a] = None
    /\ start0[made[y].b] = None

SumRule(y) ==
    /\ heap[made[y].a].derivative = heap[y].derivative
    /\ heap[made[y].b].derivative = heap[y].derivative

ProductRule(y) ==
    /\ heap[made[y].a].derivative
          = Some(heap[y].derivative[1] * heap[made[y].b].value)
    /\ heap[made[y].b].derivative
          = Some(heap[y].derivative[1] * heap[made[y].a].value)

(* neither operand is the other or reachable from the other *)
Unrelated(a, b) == a \notin Reach(b) /\ b \notin Reach(a)

(* C3 as stated: for any a and b with absent derivatives, after            *)
(* backward(add(a, b)) both hold derivative(y), and after                  *)
(* backward(multiply(a, b)) they hold derivative(y) * b.value and          *)
(* derivative(y) * a.value.                                                *)
C3_Original ==
    /\ (Returned /\ BuiltFromAbsent(Root, "add")) => SumRule(Root)
    /\ (Returned /\ BuiltFromAbsent(Root, "mul")) => ProductRule(Root)

(* C3, amended: the sum rule and the product rule hold when a and b are    *)
(* distinct nodes neither of which is reachable from the other.            *)
C3_SumAndProductRule ==
    /\ (/\ Returned
        /\ BuiltFromAbsent(Root, "add")
        /\ Unrelated(made[Root].a, made[Root].b)) => SumRule(Root)
    /\ (/\ Returned
        /\ BuiltFromAbsent(Root, "mul")
        /\ Unrelated(made[Root].a, made[Root].b)) => ProductRule(Root)

(* a product of two unrelated operands of different values, differentiated *)
C3_Witness ==
    /\ Returned
    /\ BuiltFromAbsent(Root, "mul")
    /\ Unrelated(made[Root].a, made[Root].b)
    /\ heap[made[Root].a].value # heap[made[Root].b].value
    /\ ProductRule(Root)

(* the positions of node n in sequence o *)
Positions(o, n) == {i \in 1..Len(o) : o[i] = n}

(* C4: build_topo(root), from an empty order and an empty visited set,     *)
(* lists exactly the nodes reachable from root, each once (by identity),   *)
(* every node after all of its parents, a leaf first and root last.        *)
C4_TopoOrder ==
    \A r \in Nodes :
        LET o == topo(r)
        IN  /\ {o[i] : i \in 1..Len(o)} = Reach(r)
            /\ \A n \in Reach(r) : Cardinality(Positions(o, n)) = 1
            /\ \A i \in 1..Len(o) : \A q \in Parents(o[i]) :
                  \E j \in 1..(i - 1) : o[j] = q
            /\ Leaf(o[1])
            /\ o[Len(o)] = r

(* a root that reaches one node by two different parents' paths, and two   *)
(* distinct reachable nodes of equal value                                 *)
C4_Witness ==
    \E r \in Nodes :
        /\ \E n \in Reach(r) : \E m1 \in Reach(r), m2 \in Reach(r) :
              m1 # m2 /\ n \in Parents(m1) /\ n \in Parents(m2)
        /\ \E n1 \in Reach(r), n2 \in Reach(r) :
              n1 # n2 /\ heap[n1].value = heap[n2].value

(* C5: a node built by add, subtract or multiply has parents (a, b) in     *)
(* operand order, the operation's value, and local-derivative values       *)
(* (1, 1), (1, -1) or (b.value, a.value); the values a backward pass reads *)
(* are the ones attached at construction.                                  *)
C5_Operations ==
    \A m \in Nodes :
        LET a == made[m].a
            b == made[m].b
        IN  /\ made[m].op = "leaf" => Leaf(m)
            /\ made[m].op # "leaf" =>
                  /\ heap[m].args = <<a, b>>
                  /\ a < m /\ b < m
                  /\ LocalValues(m) = made[m].lv
            /\ made[m].op = "add" =>
                  /\ heap[m].value = heap[a].value + heap[b].value
                  /\ LocalValues(m) = <<1, 1>>
            /\ made[m].op = "sub" =>
                  /\ heap[m].value = heap[a].value - heap[b].value
                  /\ LocalValues(m) = <<1, -1>>
            /\ made[m].op = "mul" =>
                  /\ heap[m].value = heap[a].value * heap[b].value
                  /\ LocalValues(m) = <<heap[b].value, heap[a].value>>

(* a backward pass has taken a difference and a product of operands of     *)
(* different values                                                        *)
C5_Witness ==
    /\ Returned
    /\ \E m \in ProcessedSet :
          made[m].op = "mul" /\ heap[made[m].a].value # heap[made[m].b].value
    /\ \E m \in ProcessedSet : made[m].op = "sub"

(* C6: a node that no backward call has reached since it was constructed   *)
(* or last cleared holds the absent marker; right after                    *)
(* clear_derivatives(root) so does every node reachable from root.         *)
C6_AbsentUnlessReached ==
    /\ \A n \in Nodes : n \notin touched => heap[n].derivative = None
    /\ (pc = "ready" /\ last.call = "clear_derivatives")
          => \A n \in Reach(Root) : heap[n].derivative = None
    /\ (pc = "ready" /\ last.call \in {"leaf", "add", "sub", "mul"})
          => heap[Root].derivative = None

(* right after clear_derivatives(root): a dependent of root still holds    *)
(* the derivative of a backward pass, which had reached root too; another  *)
(* node, never reached, holds none                                         *)
C6_Witness ==
    /\ pc = "ready"
    /\ last.call = "clear_derivatives"
    /\ \E m \in Nodes \ {Root} : Root \in Reach(m) /\ Present(m) /\ m \in touched
    /\ \E n \in Nodes \ Reach(Root) : ~Present(n) /\ n \notin touched

(* C7: when backward(x) returns, derivative(x) is 1.0, whatever x held.    *)
C7_RootIsOne == Returned => heap[Root].derivative = Some(1)

(* backward on a leaf that held a derivative other than 1 *)
C7_Witness ==
    /\ Returned
    /\ made[Root].op = "leaf"
    /\ start0[Root] # None
    /\ start0[Root] # Some(1)

(* C8: no call changes the value, the parents or the local derivatives of  *)
(* a node already constructed; an operation only adds its result to the    *)
(* heap and leaves every other node, its operands included, as it was;     *)
(* backward and clear_derivatives add no node.                             *)
C8_GraphImmutable ==
    [][/\ \A n \in Nodes :
            /\ n <= Len(heap')
            /\ heap'[n].value = heap[n].value
            /\ heap'[n].args = heap[n].args
            /\ heap'[n].local_derivatives = heap[n].local_derivatives
       /\ Len(heap') # Len(heap) =>
            /\ Len(heap') = Len(heap) + 1
            /\ last'.call \in {"leaf", "add", "sub", "mul"}
            /\ \A n \in Nodes : heap'[n] = heap[n]
       /\ last'.call \in {"backward", "clear_derivatives"} => Len(heap') = Len(heap)]_vars

(* after backward and clear_derivatives calls, an operation result and its *)
(* operands hold derivatives while another node was cleared                *)
C8_Witness ==
    /\ pc = "ready"
    /\ last.call = "clear_derivatives"
    /\ passes >= 1
    /\ ~Present(Root)
    /\ \E m \in Nodes : ~Leaf(m) /\ Present(m) /\ \A q \in Parents(m) : Present(q)

(* the nodes the loop had taken before its i-th turn *)
TakenBefore(i) == {processed[j] : j \in 1..(i - 1)}

(* C9: when the loop of backward takes node n, n.derivative is present and *)
(* every reachable node that has n as a parent has been taken; the         *)
(* derivative of a node taken is not modified later in the pass; no absent *)
(* derivative is multiplied; each reachable node is taken exactly once.    *)
C9_FinalizedBeforeUse ==
    /\ pc # "TypeError"
    /\ Returned =>
          /\ \A i \in 1..Len(processed) :
                LET n == processed[i]
                IN  /\ used[i] # None
                    /\ \A m \in Reach(Root) : n \in Parents(m) => m \in TakenBefore(i)
                    /\ heap[n].derivative = used[i]
          /\ \A n \in Reach(Root) : Cardinality(Positions(processed, n)) = 1
          /\ ProcessedSet = Reach(Root)

(* the loop took a node after two different dependents of it, one of them *)
(* a dependent of the other                                                *)
C9_Witness ==
    /\ Returned
    /\ \E i \in 1..Len(processed) :
          /\ \E m1 \in TakenBefore(i), m2 \in TakenBefore(i) :
                /\ m1 # m2
                /\ m1 \in Parents(m2)
                /\ processed[i] \in Parents(m1)
                /\ processed[i] \in Parents(m2)

RECURSIVE Pushed(_, _)
(* what the nodes m .. Root taken by the loop pushed onto p: the           *)
(* derivative each held when taken, times its local-derivative values      *)
Pushed(p, m) ==
    IF m > Root
    THEN 0
    ELSE (IF m \in ProcessedSet
          THEN used[TakenAt(m)][1] * EdgeWeight(m, p)
          ELSE 0) + Pushed(p, m + 1)

(* C10: when backward(root) returns, every reachable node p other than     *)
(* root holds what it held when the call was made (nothing if absent) plus *)
(* the contributions pushed onto it during the pass.                       *)
C10_AddsToStale ==
    Returned =>
        \A p \in Reach(Root) \ {Root} :
            heap[p].derivative =
                Some((IF start0[p] = None THEN 0 ELSE start0[p][1]) + Pushed(p, p + 1))

(* backward(y) twice on y = add(a, b) with distinct leaves *)
C10_Witness ==
    /\ Returned
    /\ passes = 2
    /\ made[Root].op = "add"
    /\ made[Root].a # made[Root].b
    /\ Leaf(made[Root].a) /\ Leaf(made[Root].b)
    /\ start0[Root] = Some(1)
    /\ heap[made[Root].a].derivative = Some(2)
    /\ heap[Root].derivative = Some(1)

====
